---- MODULE Spec2Model ----
(***************************************************************************)
(* Zigbee-sim.cc: a ten-node Zigbee mesh scenario on the ns-3 event        *)
(* scheduler.  The module models the scenario's own code: the confirm and  *)
(* indication callbacks, SendData, the packet accounting globals, the      *)
(* events main() schedules, and TraceRoute.  The Zigbee stack (NWK/MAC/    *)
(* PHY) is the environment: every request handed to it answers with a      *)
(* confirm or indication whose status, content and delay are chosen        *)
(* nondeterministically.                                                   *)
(*                                                                         *)
(* Time is counted in units of 10 ms (Seconds(1) = 100).                   *)
(***************************************************************************)
EXTENDS Integers, Sequences, FiniteSets, TLC

VARIABLES
    now,                    \* Simulator::Now()
    events,                 \* the scheduler's pending events
    nextUid,                \* the scheduler's next event uid (FIFO tie-break)
    run,                    \* "running" | "aborted" | "stopped"
    zigbeeStacks,           \* the global ZigbeeStackContainer: index -> stack
    g_totalPacketsSent,
    g_totalPacketsReceived,
    g_packetCounter,
    g_sendTimeMap,          \* packet id -> send time
    g_delayList,            \* sequence of delays
    trace,                  \* the locals and the output of TraceRoute
    report,                 \* what the statistics lambda printed
    log,                    \* history: every event executed, in order
    faults                  \* history: environment deviations used so far

vars == << now, events, nextUid, run, zigbeeStacks, g_totalPacketsSent,
           g_totalPacketsReceived, g_packetCounter, g_sendTimeMap, g_delayList,
           trace, report, log, faults >>

simVars == << now, events, nextUid, run, g_totalPacketsSent,
              g_totalPacketsReceived, g_packetCounter, g_sendTimeMap,
              g_delayList, report, log, faults >>

-----------------------------------------------------------------------------
(* Program constants *)

\* Mac16Address("FF:FF"): unassigned short address / no route
FFFF == 65535
\* an address that no stack of the container holds
NoStackAddr == FFFF - 1
MAX_HOPS == 30
MAX_VISITS_PER_NODE_FOR_LOOP_DETECTION == 3
\* nodes.Create(10); zigbeeStacks.Add(zstack0) .. Add(zstack9)
NumNodes == 10

(* Bounds of the model *)

\* largest stack container TraceRoute is run on under SpecTrace: a chain of
\* MAX_HOPS stacks before the destination fits
MaxStacks == 31

-----------------------------------------------------------------------------
(* TraceRoute *)

Min(S) == CHOOSE x \in S : \A y \in S : x <= y

\* The value of visitedNodeCounts[a]: std::map::operator[] yields 0 for a new key.
VisitCount(v, a) == IF a \in DOMAIN v THEN v[a] ELSE 0

\* visitedNodeCounts[a]++
VisitAssigned(v, a) == [x \in DOMAIN v \cup {a} |-> IF x = a THEN 1 ELSE v[x]]
Visit(v, a) == [x \in DOMAIN v \cup {a} |-> IF x = a THEN VisitCount(v, a) + 1 ELSE v[x]]

\* The condition of the while loop.
LoopConditionNoArrival(cur, dst, hop) == cur # FFFF /\ hop <= MAX_HOPS
LoopConditionNoHopLimit(cur, dst, hop) == cur # FFFF /\ cur # dst
LoopCondition(cur, dst, hop) == cur # FFFF /\ cur # dst /\ hop <= MAX_HOPS

\* visitedNodeCounts[currentHopAddr] >= MAX_VISITS_PER_NODE_FOR_LOOP_DETECTION
LoopDetectedNever(count) == FALSE
LoopDetectedOffByOne(count) == count > MAX_VISITS_PER_NODE_FOR_LOOP_DETECTION
LoopDetected(count) == count >= MAX_VISITS_PER_NODE_FOR_LOOP_DETECTION

\* The for loop over zigbeeStacks: the first stack whose network address is a,
\* or -1 (currentHopStack stays nullptr).
FindStackOrFirst(stacks, a) ==
    LET m == {i \in DOMAIN stacks : stacks[i].addr = a}
    IN  IF m = {} THEN Min(DOMAIN stacks) ELSE Min(m)
FindStack(stacks, a) ==
    LET m == {i \in DOMAIN stacks : stacks[i].addr = a}
    IN  IF m = {} THEN -1 ELSE Min(m)

\* TraceRoute's locals before the call.
TraceIdle(src, dst) ==
    [pc |-> "idle", src |-> src, dst |-> dst, currentHopAddr |-> FFFF,
     hopCount |-> 0, visitedNodeCounts |-> << >>, out |-> << >>,
     iterations |-> 0, queried |-> << >>]

\* The assignments before the while loop.
TraceEnter(t) ==
    [t EXCEPT !.pc = "while", !.currentHopAddr = t.src, !.hopCount = 1,
              !.visitedNodeCounts = << >>, !.out = << >>,
              !.iterations = 0, !.queried = << >>]

\* What the body prints after "Node .. [..]: " for the next hop FindRoute gave.
HopMessageNoReached(nextHopAddr, dst) ==
    IF nextHopAddr = FFFF THEN "Destination Unreachable" ELSE "NextHop"
HopMessageNoSentinel(nextHopAddr, dst) ==
    IF nextHopAddr = dst THEN "Destination Reached" ELSE "NextHop"
HopMessage(nextHopAddr, dst) ==
    IF nextHopAddr = FFFF THEN "Destination Unreachable"
    ELSE IF nextHopAddr = dst THEN "Destination Reached"
    ELSE "NextHop"

\* One execution of the while loop's body.
TraceBody(t, stacks) ==
    LET cur    == t.currentHopAddr
        visits == Visit(t.visitedNodeCounts, cur)
        s      == FindStack(stacks, cur)
        t1     == [t EXCEPT !.visitedNodeCounts = visits,
                            !.iterations = @ + 1]
    IN  IF LoopDetected(visits[cur])
        THEN [t1 EXCEPT !.pc = "break",
                        !.out = Append(@, [msg |-> "LOOP DETECTED",
                                           hop |-> t.hopCount, addr |-> cur,
                                           next |-> FFFF, node |-> -1,
                                           neighbor |-> FALSE])]
        ELSE IF s = -1
        THEN [t1 EXCEPT !.pc = "break",
                        !.out = Append(@, [msg |-> "not found",
                                           hop |-> t.hopCount, addr |-> cur,
                                           next |-> FFFF, node |-> -1,
                                           neighbor |-> FALSE])]
        ELSE LET nextHopAddr == stacks[s].nextHop
                 msg == HopMessage(nextHopAddr, t.dst)
             IN  [t1 EXCEPT !.out = Append(@, [msg |-> msg, hop |-> t.hopCount,
                                               addr |-> stacks[s].addr,
                                               next |-> nextHopAddr,
                                               node |-> s,
                                               neighbor |-> stacks[s].neighbor]),
                            !.queried = Append(@, s),
                            !.currentHopAddr = nextHopAddr,
                            !.hopCount = @ + 1]

\* The check after the loop and the trailing newline.
TraceEnd(t) ==
    LET cur == t.currentHopAddr
        far == t.hopCount > MAX_HOPS /\ cur # t.dst
        \* visitedNodeCounts[currentHopAddr] is evaluated, and inserts the key,
        \* only when the conditions before it hold and the map is not empty
        visits == IF far /\ DOMAIN t.visitedNodeCounts # {}
                  THEN [x \in DOMAIN t.visitedNodeCounts \cup {cur} |->
                            VisitCount(t.visitedNodeCounts, x)]
                  ELSE t.visitedNodeCounts
        exceeded == far /\ (DOMAIN t.visitedNodeCounts = {}
                            \/ ~LoopDetected(VisitCount(t.visitedNodeCounts, cur)))
    IN  [t EXCEPT !.pc = "done",
                  !.visitedNodeCounts = visits,
                  !.out = IF exceeded
                          THEN Append(@, [msg |-> "Exceeded maximum hop count",
                                          hop |-> t.hopCount, addr |-> cur,
                                          next |-> FFFF, node |-> -1,
                                           neighbor |-> FALSE])
                          ELSE @]

\* TraceRoute(src, dst) run to completion on the given container.
RECURSIVE TraceLoop(_, _)
TraceLoop(t, stacks) ==
    IF t.pc = "while" /\ LoopCondition(t.currentHopAddr, t.dst, t.hopCount)
    THEN TraceLoop(TraceBody(t, stacks), stacks)
    ELSE TraceEnd(t)

TraceRoute(src, dst, stacks) == TraceLoop(TraceEnter(TraceIdle(src, dst)), stacks)

-----------------------------------------------------------------------------
(* TraceRoute on its own: the container, the routes and the endpoints are   *)
(* inputs.  A walk that follows next hops visits stacks in some order, then *)
(* ends at the destination, at FF:FF, at an address no stack holds, or      *)
(* falls back on a stack already visited; stacks are numbered in the order  *)
(* of the walk, the destination last.                                       *)

\* The container of n joined stacks whose walk is 0 -> 1 -> .. -> k -> last.
ChainStacks(n, k, last) ==
    [i \in 0 .. n - 1 |->
        [addr     |-> i,
         nextHop  |-> IF i < k THEN i + 1 ELSE IF i = k THEN last ELSE FFFF,
         neighbor |-> i = k /\ last = n - 1]]

InitTrace ==
    /\ \E n \in 1 .. MaxStacks :
       \E k \in 0 .. (IF n >= 2 THEN n - 2 ELSE 0) :
       \E last \in {FFFF, NoStackAddr, n - 1} \cup 0 .. k :
       \E src \in {0, n - 1} :
          /\ zigbeeStacks = ChainStacks(n, k, last)
          /\ trace = TraceIdle(src, n - 1)
    /\ now = 0
    /\ events = {}
    /\ nextUid = 0
    /\ run = "running"
    /\ g_totalPacketsSent = 0
    /\ g_totalPacketsReceived = 0
    /\ g_packetCounter = 0
    /\ g_sendTimeMap = << >>
    /\ g_delayList = << >>
    /\ report = << >>
    /\ log = << >>
    /\ faults = 0

TraceRouteEnter ==
    /\ trace.pc = "idle"
    /\ trace' = TraceEnter(trace)
    /\ UNCHANGED << zigbeeStacks, simVars >>

TraceRouteIterate ==
    /\ trace.pc = "while"
    /\ LoopCondition(trace.currentHopAddr, trace.dst, trace.hopCount)
    /\ trace' = TraceBody(trace, zigbeeStacks)
    /\ UNCHANGED << zigbeeStacks, simVars >>

TraceRouteExit ==
    /\ \/ trace.pc = "break"
       \/ /\ trace.pc = "while"
          /\ ~LoopCondition(trace.currentHopAddr, trace.dst, trace.hopCount)
    /\ trace' = TraceEnd(trace)
    /\ UNCHANGED << zigbeeStacks, simVars >>

NextTrace == TraceRouteEnter \/ TraceRouteIterate \/ TraceRouteExit

SpecTrace == InitTrace /\ [][NextTrace]_vars

\* TraceRoute is one function call: once entered it runs on.
FairSpecTrace == SpecTrace /\ WF_vars(NextTrace)

-----------------------------------------------------------------------------
(* The scenario of main(): constants *)

\* Seconds(1): NlmeNetworkFormationRequest of the coordinator
formationTime == 100
\* double startTime = 12.0
startTime == 1200
\* double interval = 0.5
interval == 50
\* Ptr<ZigbeeStack> sourceStack = zstack2, destinationStack = zstack8,
\* inspectStack = zstack4
sourceStack == 2
destinationStack == 8
inspectStack == 4

\* Seconds(3) .. Seconds(11): NlmeNetworkDiscoveryRequest of nodes 1 .. 9
DiscoveryTimeUnstaggered(n) == 300
DiscoveryTime(n) == (n + 2) * 100

(* Bounds of the model *)

\* int numPacketsToSend (200 in the program)
numPacketsToSend == 3
\* environment deviations (failed or late confirms, lost, late, repeated,
\* misdelivered or mistagged packets, odd descriptor lists) in one run
MaxFaults == 1
\* delay of a confirm, in time
ConfirmDelay == 30
\* delay of a late confirm
LateConfirmDelay == 1000
\* delay of a data indication after its data request
DataDelay == 2
\* delay of a late data indication
LateDataDelay == 1200

\* double calculationTime = startTime + (numPacketsToSend * interval) + 10.0
calculationTimeNoMargin == startTime
calculationTime == startTime + (numPacketsToSend * interval) + 1000
\* double tablePrintTime = calculationTime - 0.5, unless that is too early
tablePrintTimeAtResults == calculationTime
tablePrintTime ==
    IF calculationTime - 50 < startTime + (numPacketsToSend * interval)
    THEN calculationTime
    ELSE calculationTime - 50
\* double stopTime = calculationTime + 5.0
stopTime == calculationTime + 500

Nodes == 0 .. NumNodes - 1
\* stack->GetNode()->GetId() >= 1 && stack->GetNode()->GetId() <= 4
IsRouterAnyJoiner(id) == id >= 1
IsRouter(id) == id >= 1 /\ id <= 4
\* stack->GetNode()->GetId() >= 5 && stack->GetNode()->GetId() <= 9
IsEndDevice(id) == id >= 5 /\ id <= 9

\* tag of a packet that carries no PacketIdTag
NoTag == -1
\* extended PAN ids a discovery may report
PanA == 51966
PanB == PanA + 1
\* what reading m_netDescList[0] of an empty vector may yield
GarbagePan == PanB + 1

-----------------------------------------------------------------------------
(* The event scheduler *)

Ev(time, uid, kind, node, status, list, tag) ==
    [time |-> time, uid |-> uid, kind |-> kind, node |-> node,
     status |-> status, list |-> list, tag |-> tag]

\* Simulator::Schedule / ScheduleWithContext calls of main(), in program order
InitialEvents ==
    {Ev(formationTime, 0, "NlmeNetworkFormationRequest", 0, "", << >>, NoTag)}
    \cup {Ev(DiscoveryTime(n), n, "NlmeNetworkDiscoveryRequest", n, "", << >>, NoTag)
            : n \in 1 .. NumNodes - 1}
    \cup {Ev(startTime + i * interval, NumNodes + i, "SendData", sourceStack, "",
             << >>, NoTag) : i \in 0 .. numPacketsToSend - 1}
    \cup {Ev(calculationTime, NumNodes + numPacketsToSend, "Report",
             -1, "", << >>, NoTag),
          Ev(tablePrintTime, NumNodes + numPacketsToSend + 1, "TablesHeader",
             inspectStack, "", << >>, NoTag),
          Ev(tablePrintTime, NumNodes + numPacketsToSend + 2, "PrintNeighborTable",
             inspectStack, "", << >>, NoTag),
          Ev(tablePrintTime + 1, NumNodes + numPacketsToSend + 3, "PrintRoutingTable",
             inspectStack, "", << >>, NoTag),
          Ev(startTime + 72, NumNodes + numPacketsToSend + 4,
             "PrintRouteDiscoveryTable", inspectStack, "", << >>, NoTag),
          Ev(tablePrintTime + 3, NumNodes + numPacketsToSend + 5,
             "ScheduleTraceRouteWrapper", sourceStack, "", << >>, NoTag),
          Ev(stopTime, NumNodes + numPacketsToSend + 6, "Stop", -1, "",
             << >>, NoTag)}

\* The next event Simulator::Run() executes: earliest time, then lowest uid.
NextEvent ==
    CHOOSE e \in events :
        \A f \in events : e.time < f.time \/ (e.time = f.time /\ e.uid <= f.uid)

Ready(kind) == run = "running" /\ events # {} /\ NextEvent.kind = kind

\* The bookkeeping of every executed event: the clock moves to the event, the
\* event leaves the queue, `new' (a sequence of events without uid) is scheduled
\* in order, and the execution is recorded with its outcome
\* and the packet id it handled (0 when none).
Scheduled(new) ==
    {[new[i] EXCEPT !.uid = nextUid + i - 1] : i \in 1 .. Len(new)}

Execute(new, res, id) ==
    /\ now' = NextEvent.time
    /\ events' = (events \ {NextEvent}) \cup Scheduled(new)
    /\ nextUid' = nextUid + Len(new)
    /\ log' = Append(log, [ev |-> NextEvent, res |-> res, id |-> id])

Init ==
    /\ now = 0
    /\ events = InitialEvents
    /\ nextUid = NumNodes + numPacketsToSend + 7
    /\ run = "running"
    /\ zigbeeStacks = [i \in Nodes |-> [addr |-> FFFF, nextHop |-> FFFF,
                                        neighbor |-> FALSE]]
    /\ g_totalPacketsSent = 0
    /\ g_totalPacketsReceived = 0
    /\ g_packetCounter = 0
    /\ g_sendTimeMap = << >>
    /\ g_delayList = << >>
    /\ trace = TraceIdle(FFFF, FFFF)
    /\ report = << >>
    /\ log = << >>
    /\ faults = 0

accounting == << g_totalPacketsSent, g_totalPacketsReceived, g_packetCounter,
                 g_sendTimeMap, g_delayList >>

-----------------------------------------------------------------------------
(* The stack's answers: status, content and delay of a confirm *)

Cost(c) == IF c THEN 1 ELSE 0

ConfirmChoices ==
    {[status |-> st, delay |-> d, list |-> << >>] :
        st \in {"SUCCESS", "FAILED"}, d \in {ConfirmDelay, LateConfirmDelay}}

ConfirmCost(c) == Cost(c.status # "SUCCESS") + Cost(c.delay # ConfirmDelay)

DiscoveryChoices ==
    {[status |-> "SUCCESS", delay |-> d, list |-> l] :
        d \in {ConfirmDelay, LateConfirmDelay},
        l \in {<< >>, << PanA >>, << PanB, PanA >>}}
    \cup {[status |-> "FAILED", delay |-> d, list |-> << >>] :
        d \in {ConfirmDelay, LateConfirmDelay}}

DiscoveryCost(c) ==
    ConfirmCost(c) + Cost(c.status = "SUCCESS" /\ c.list # << PanA >>)

-----------------------------------------------------------------------------
(* Bootstrap: formation, discovery, join, start router *)

\* ZigbeeNwk::NlmeNetworkFormationRequest (the stack): answers with a confirm.
NlmeNetworkFormationRequest ==
    /\ Ready("NlmeNetworkFormationRequest")
    /\ \E c \in ConfirmChoices :
        /\ faults + ConfirmCost(c) <= MaxFaults
        /\ faults' = faults + ConfirmCost(c)
        /\ Execute(<< Ev(NextEvent.time + c.delay, 0, "NwkNetworkFormationConfirm",
                         NextEvent.node, c.status, << >>, NoTag) >>, "", 0)
    /\ UNCHANGED << run, zigbeeStacks, accounting, trace, report >>

\* What the run does after a formation confirm: the callback only prints.
FormationConfirmRun(status) == "running"

\* NwkNetworkFormationConfirm; a coordinator that formed its network has
\* short address 00:00.
NwkNetworkFormationConfirm ==
    /\ Ready("NwkNetworkFormationConfirm")
    /\ zigbeeStacks' = IF NextEvent.status = "SUCCESS"
                       THEN [zigbeeStacks EXCEPT ![NextEvent.node].addr = 0]
                       ELSE zigbeeStacks
    /\ run' = FormationConfirmRun(NextEvent.status)
    /\ Execute(<< >>, "printed", 0)
    /\ UNCHANGED << accounting, trace, report, faults >>

\* ZigbeeNwk::NlmeNetworkDiscoveryRequest (the stack): answers with a confirm
\* carrying a status and a list of network descriptors.
NlmeNetworkDiscoveryRequest ==
    /\ Ready("NlmeNetworkDiscoveryRequest")
    /\ \E c \in DiscoveryChoices :
        /\ faults + DiscoveryCost(c) <= MaxFaults
        /\ faults' = faults + DiscoveryCost(c)
        /\ Execute(<< Ev(NextEvent.time + c.delay, 0, "NwkNetworkDiscoveryConfirm",
                         NextEvent.node, c.status, c.list, NoTag) >>, "", 0)
    /\ UNCHANGED << run, zigbeeStacks, accounting, trace, report >>

\* capaInfo.SetDeviceType(..)
Capability(id) ==
    IF IsRouter(id) THEN "ROUTER"
    ELSE IF IsEndDevice(id) THEN "ENDDEVICE"
    ELSE "DEFAULT"

\* joinParams.m_extendedPanId = params.m_netDescList[0].m_extPanId
JoinTarget(list) == list[1]

\* NS_ABORT_MSG("Unable to discover networks ...")
DiscoveryFailureContinues == "running"
DiscoveryFailureRun == "aborted"

\* Simulator::ScheduleNow(&ZigbeeNwk::NlmeJoinRequest, ..): the event carries
\* the capability in `status' and the extended PAN id in `list'.
JoinRequestWrongStack(node, pan) ==
    Ev(NextEvent.time, 0, "NlmeJoinRequest", IF node = NumNodes - 1 THEN 1 ELSE node + 1,
       Capability(node), << pan >>, NoTag)
JoinRequest(node, pan) ==
    Ev(NextEvent.time, 0, "NlmeJoinRequest", node, Capability(node), << pan >>, NoTag)

\* NwkNetworkDiscoveryConfirm.  m_netDescList[0] of an empty vector is
\* undefined behaviour: the run crashes, or goes on with whatever was read.
NwkNetworkDiscoveryConfirm ==
    /\ Ready("NwkNetworkDiscoveryConfirm")
    /\ LET e == NextEvent
       IN  IF e.status = "SUCCESS"
           THEN IF e.list # << >>
                THEN /\ run' = run
                     /\ Execute(<< JoinRequest(e.node, JoinTarget(e.list)) >>,
                                "join", 0)
                ELSE \/ /\ run' = "aborted"
                        /\ Execute(<< >>, "crash", 0)
                     \/ /\ run' = run
                        /\ Execute(<< JoinRequest(e.node, GarbagePan) >>,
                                   "garbage", 0)
           ELSE /\ run' = DiscoveryFailureRun
                /\ Execute(<< >>, "failed", 0)
    /\ UNCHANGED << zigbeeStacks, accounting, trace, report, faults >>

\* ZigbeeNwk::NlmeJoinRequest (the stack): answers with a confirm.
NlmeJoinRequest ==
    /\ Ready("NlmeJoinRequest")
    /\ \E c \in ConfirmChoices :
        /\ faults + ConfirmCost(c) <= MaxFaults
        /\ faults' = faults + ConfirmCost(c)
        /\ Execute(<< Ev(NextEvent.time + c.delay, 0, "NwkJoinConfirm",
                         NextEvent.node, c.status, << >>, NoTag) >>, "", 0)
    /\ UNCHANGED << run, zigbeeStacks, accounting, trace, report >>

\* The short address the stack assigns to a node that joined.
ShortAddress(node) == node

\* The requests NwkJoinConfirm issues on a status other than SUCCESS: the
\* else branch only prints.
JoinFailureRetries(node) ==
    << Ev(NextEvent.time, 0, "NlmeJoinRequest", node, Capability(node),
          << PanA >>, NoTag) >>
JoinFailureRequests(node) == << >>

\* NwkJoinConfirm; the stack of a node that joined holds its new short address.
NwkJoinConfirm ==
    /\ Ready("NwkJoinConfirm")
    /\ LET e == NextEvent
       IN  IF e.status = "SUCCESS"
           THEN /\ zigbeeStacks' =
                      [zigbeeStacks EXCEPT ![e.node].addr = ShortAddress(e.node)]
                /\ IF IsRouter(e.node)
                   THEN Execute(<< Ev(e.time, 0, "NlmeStartRouterRequest", e.node,
                                      "", << >>, NoTag) >>, "joined", 0)
                   ELSE Execute(<< >>, "joined", 0)
           ELSE /\ zigbeeStacks' = zigbeeStacks
                /\ Execute(JoinFailureRequests(e.node), "failed", 0)
    /\ UNCHANGED << run, accounting, trace, report, faults >>

\* ZigbeeNwk::NlmeStartRouterRequest (the stack): no confirm is consumed.
NlmeStartRouterRequest ==
    /\ Ready("NlmeStartRouterRequest")
    /\ Execute(<< >>, "", 0)
    /\ UNCHANGED << run, zigbeeStacks, accounting, trace, report, faults >>

-----------------------------------------------------------------------------
(* Traffic: SendData, the data request, NwkDataIndication *)

\* g_totalPacketsSent++ (uint32_t: a run increments it numPacketsToSend times,
\* far from wrapping)
SentNotCounted(sent) == sent
SentAfterSend(sent) == sent + 1

\* g_packetCounter++
PacketCounterStuck(counter) == counter
PacketCounterWraps(counter) == (counter + 1) % 2
NextPacketCounter(counter) == counter + 1

\* g_sendTimeMap[g_packetCounter] = Simulator::Now()
RecordSendBeforeIncrement(map, id, time) ==
    [x \in DOMAIN map \cup {id - 1} |-> IF x = id - 1 THEN time ELSE map[x]]
RecordSend(map, id, time) ==
    [x \in DOMAIN map \cup {id} |-> IF x = id THEN time ELSE map[x]]

\* SendData(sourceStack, destinationStack)
SendData ==
    /\ Ready("SendData")
    /\ g_totalPacketsSent' = SentAfterSend(g_totalPacketsSent)
    /\ g_packetCounter' = NextPacketCounter(g_packetCounter)
    /\ g_sendTimeMap' = RecordSend(g_sendTimeMap, g_packetCounter', NextEvent.time)
    \* dataReqParams.m_dstAddr is carried in `list', the PacketIdTag in `tag'
    /\ Execute(<< Ev(NextEvent.time, 0, "NldeDataRequest", NextEvent.node, "",
                     << zigbeeStacks[destinationStack].addr >>, g_packetCounter') >>,
               "sent", g_packetCounter')
    /\ UNCHANGED << run, zigbeeStacks, g_totalPacketsReceived, g_delayList,
                    trace, report, faults >>

\* What the mesh does with one data request: the indications it raises, each
\* at a node, with the tag the packet then carries, after a delay.  The first
\* is the regular delivery; the others are a loss, a late delivery, a repeated
\* delivery, deliveries at another node, and packets without the tag, with
\* id 0 or with an id not sent so far.
Delivery(node, tag, delay) == [node |-> node, tag |-> tag, delay |-> delay]

DataOutcomes(id) ==
    << << Delivery(destinationStack, id, DataDelay) >>,
       << >>,
       << Delivery(destinationStack, id, LateDataDelay) >>,
       << Delivery(destinationStack, id, DataDelay),
          Delivery(destinationStack, id, DataDelay) >>,
       << Delivery(inspectStack, id, DataDelay) >>,
       << Delivery(inspectStack, id, DataDelay),
          Delivery(destinationStack, id, DataDelay) >>,
       << Delivery(destinationStack, NoTag, DataDelay) >>,
       << Delivery(destinationStack, 0, DataDelay) >>,
       << Delivery(destinationStack, id + 1, DataDelay) >> >>

\* ZigbeeNwk::NldeDataRequest (the stack and the mesh)
NldeDataRequest ==
    /\ Ready("NldeDataRequest")
    /\ \E k \in 1 .. Len(DataOutcomes(NextEvent.tag)) :
        LET o == DataOutcomes(NextEvent.tag)[k]
        IN  /\ faults + Cost(k # 1) <= MaxFaults
            /\ faults' = faults + Cost(k # 1)
            /\ Execute([i \in 1 .. Len(o) |->
                           Ev(NextEvent.time + o[i].delay, 0, "NwkDataIndication",
                              o[i].node, "", << >>, o[i].tag)], "", NextEvent.tag)
    /\ UNCHANGED << run, zigbeeStacks, accounting, trace, report >>

\* auto it = g_sendTimeMap.find(packetId): the entry's send time (it->second),
\* or nothing (g_sendTimeMap.end()).  find() never inserts, unlike
\* g_sendTimeMap[packetId], which makes an entry with Time 0 for a missing key.
FindSendTimeInserting(map, id) == IF id \in DOMAIN map THEN << map[id] >> ELSE << 0 >>
FindSendTime(map, id) == IF id \in DOMAIN map THEN << map[id] >> ELSE << >>

\* it != g_sendTimeMap.end()
HasSendTime(map, id) == FindSendTime(map, id) # << >>

\* Time delay = currentTime - sendTime
DelayReversed(currentTime, sendTime) == sendTime - currentTime
Delay(currentTime, sendTime) == currentTime - sendTime

\* g_sendTimeMap.erase(it)
EraseSendTimeUpTo(map, id) == [x \in {y \in DOMAIN map : y > id} |-> map[x]]
EraseSendTimeKeeps(map, id) == map
EraseSendTime(map, id) == [x \in DOMAIN map \ {id} |-> map[x]]

\* g_totalPacketsReceived++
ReceivedCountedTwice(received) == received + 2
ReceivedAfterCredit(received) == received + 1

\* NwkDataIndication(stack, params, p)
NwkDataIndication ==
    /\ Ready("NwkDataIndication")
    /\ LET packetId == NextEvent.tag
       IN  IF packetId # NoTag
           THEN IF packetId > 0
                THEN IF HasSendTime(g_sendTimeMap, packetId)
                     THEN /\ g_delayList' =
                                Append(g_delayList,
                                       Delay(NextEvent.time,
                                             FindSendTime(g_sendTimeMap,
                                                          packetId)[1]))
                          /\ g_totalPacketsReceived' =
                                ReceivedAfterCredit(g_totalPacketsReceived)
                          /\ g_sendTimeMap' = EraseSendTime(g_sendTimeMap, packetId)
                          /\ Execute(<< >>, "credited", packetId)
                     ELSE /\ UNCHANGED << g_delayList, g_totalPacketsReceived,
                                          g_sendTimeMap >>
                          /\ Execute(<< >>, "NO SEND TIME", packetId)
                ELSE /\ UNCHANGED << g_delayList, g_totalPacketsReceived,
                                     g_sendTimeMap >>
                     /\ Execute(<< >>, "invalid ID tag", 0)
           ELSE /\ UNCHANGED << g_delayList, g_totalPacketsReceived,
                                g_sendTimeMap >>
                /\ Execute(<< >>, "NO TAG", 0)
    /\ UNCHANGED << run, zigbeeStacks, g_totalPacketsSent, g_packetCounter,
                    trace, report, faults >>

-----------------------------------------------------------------------------
(* Diagnostics: table dumps, the path trace, the statistics report, the stop *)

Printing(kind) ==
    /\ Ready(kind)
    /\ Execute(<< >>, "printed", 0)
    /\ UNCHANGED << run, zigbeeStacks, accounting, trace, report, faults >>

\* ZigbeeNwk::PrintRouteDiscoveryTable at startTime + 0.72
PrintRouteDiscoveryTable == Printing("PrintRouteDiscoveryTable")
\* the lambda that prints the header of the tables
TablesHeader == Printing("TablesHeader")
\* ZigbeeNwk::PrintNeighborTable
PrintNeighborTable == Printing("PrintNeighborTable")
\* ZigbeeNwk::PrintRoutingTable
PrintRoutingTable == Printing("PrintRoutingTable")

\* What FindRoute(dst, neighbor) answers at each stack when the trace runs:
\* the routing tables are the stack's.  Only the source and the inspected
\* router hold a route here: to the destination itself, through the router,
\* none, back to the source, or to an address no stack holds.
RouteShapes == {"direct", "via", "unreachable", "cycle", "stale"}

WithRoutes(stacks, shape) ==
    LET srcAddr == stacks[sourceStack].addr
        dstAddr == stacks[destinationStack].addr
        midAddr == stacks[inspectStack].addr
        srcHop  == CASE shape = "direct" -> dstAddr
                     [] shape = "via" -> midAddr
                     [] shape = "cycle" -> midAddr
                     [] shape = "stale" -> NoStackAddr
                     [] OTHER -> FFFF
        midHop  == CASE shape = "via" -> dstAddr
                     [] shape = "cycle" -> srcAddr
                     [] OTHER -> FFFF
    IN  [i \in DOMAIN stacks |->
            [stacks[i] EXCEPT
                !.nextHop = IF i = sourceStack THEN srcHop
                            ELSE IF i = inspectStack THEN midHop
                            ELSE FFFF,
                !.neighbor = (i = sourceStack /\ srcHop = dstAddr)
                             \/ (i = inspectStack /\ midHop = dstAddr)]]

\* srcAddr == Mac16Address("FF:FF") || dstAddr == Mac16Address("FF:FF")
TraceCanceledSrcOnly(srcAddr, dstAddr) == srcAddr = FFFF
TraceCanceled(srcAddr, dstAddr) == srcAddr = FFFF \/ dstAddr = FFFF

\* The events the wrapper and TraceRoute schedule: they only read addresses
\* and routes and print.
TraceProbes(srcAddr, dstAddr) ==
    << Ev(NextEvent.time, 0, "SendData", sourceStack, "", << >>, NoTag) >>
TraceRequests(srcAddr, dstAddr) == << >>

\* ScheduleTraceRouteWrapper(sourceStack, destinationStack); both pointers
\* are stacks of the container, never null.
ScheduleTraceRouteWrapper ==
    /\ Ready("ScheduleTraceRouteWrapper")
    /\ LET srcAddr == zigbeeStacks[sourceStack].addr
           dstAddr == zigbeeStacks[destinationStack].addr
       IN  IF TraceCanceled(srcAddr, dstAddr)
           THEN /\ UNCHANGED << zigbeeStacks, trace >>
                /\ Execute(TraceRequests(srcAddr, dstAddr), "canceled", 0)
           ELSE \E shape \in RouteShapes :
                /\ zigbeeStacks' = WithRoutes(zigbeeStacks, shape)
                /\ trace' = TraceRoute(srcAddr, dstAddr, zigbeeStacks')
                /\ Execute(TraceRequests(srcAddr, dstAddr), "traced", 0)
    /\ UNCHANGED << run, accounting, report, faults >>

RECURSIVE SumSeq(_)
SumSeq(q) == IF q = << >> THEN 0 ELSE q[1] + SumSeq(Tail(q))

RECURSIVE MinSeq(_)
MinSeq(q) ==
    IF Len(q) = 1 THEN q[1]
    ELSE LET m == MinSeq(Tail(q)) IN IF m < q[1] THEN m ELSE q[1]

RECURSIVE MaxSeq(_)
MaxSeq(q) ==
    IF Len(q) = 1 THEN q[1]
    ELSE LET m == MaxSeq(Tail(q)) IN IF m > q[1] THEN m ELSE q[1]

\* The PDR the report prints: the pair received, sent of the division
\* static_cast<double>(g_totalPacketsReceived) / g_totalPacketsSent, or nothing
\* ("PDR: N/A").
PdrUnguarded(sent, received) == << received, sent >>
Pdr(sent, received) == IF sent > 0 THEN << received, sent >> ELSE << >>

\* The latency metrics of a delay list that is not empty; the jitter is given
\* by its square, the variance, in whole units.
DelayMetrics(delays) ==
    LET avg == SumSeq(delays) \div Len(delays)
    IN  [avg |-> avg,
         min |-> MinSeq(delays),
         max |-> MaxSeq(delays),
         variance |-> SumSeq([i \in 1 .. Len(delays) |->
                                 (delays[i] - avg) * (delays[i] - avg)])
                      \div Len(delays),
         count |-> Len(delays)]

\* The latency lines the report prints: the metrics, or nothing (four "N/A").
LatencyMetricsZeroed(delays) ==
    << IF delays # << >> THEN DelayMetrics(delays)
       ELSE [avg |-> 0, min |-> 0, max |-> 0, variance |-> 0, count |-> 0] >>
LatencyMetrics(delays) ==
    IF delays # << >> THEN << DelayMetrics(delays) >> ELSE << >>

\* The statistics the report lambda prints.
Statistics(sent, received, delays) ==
    [sent     |-> sent,
     received |-> received,
     pdr      |-> Pdr(sent, received),
     latency  |-> LatencyMetrics(delays)]

\* the lambda scheduled at calculationTime
Report ==
    /\ Ready("Report")
    /\ report' = Append(report, Statistics(g_totalPacketsSent,
                                           g_totalPacketsReceived, g_delayList))
    /\ Execute(<< >>, "printed", 0)
    /\ UNCHANGED << run, zigbeeStacks, accounting, trace, faults >>

\* Simulator::Stop(Seconds(stopTime)): Simulator::Run() returns
Stop ==
    /\ Ready("Stop")
    /\ run' = "stopped"
    /\ Execute(<< >>, "", 0)
    /\ UNCHANGED << zigbeeStacks, accounting, trace, report, faults >>

Next ==
    \/ NlmeNetworkFormationRequest
    \/ NwkNetworkFormationConfirm
    \/ NlmeNetworkDiscoveryRequest
    \/ NwkNetworkDiscoveryConfirm
    \/ NlmeJoinRequest
    \/ NwkJoinConfirm
    \/ NlmeStartRouterRequest
    \/ SendData
    \/ NldeDataRequest
    \/ NwkDataIndication
    \/ PrintRouteDiscoveryTable
    \/ TablesHeader
    \/ PrintNeighborTable
    \/ PrintRoutingTable
    \/ ScheduleTraceRouteWrapper
    \/ Report
    \/ Stop

Spec == Init /\ [][Next]_vars

-----------------------------------------------------------------------------
(* The traffic and the report on their own: what main() schedules for n     *)
(* packets to send, n being an input, once the mesh has formed.             *)

\* The route-discovery confirms the stack of the coordinator, the only one
\* with the callback set, may raise: with any status, while a packet sent is
\* on its way.
RouteDiscoveryConfirms(n) ==
    {Ev(startTime + (i * interval) + 1, NumNodes + n + 2,
        "NwkRouteDiscoveryConfirm", 0, status, << >>, NoTag) :
        i \in 0 .. n - 1, status \in {"SUCCESS", "FAILED"}}

InitTraffic ==
    /\ \E n \in 0 .. numPacketsToSend :
       \E confirms \in {{}} \cup {{c} : c \in RouteDiscoveryConfirms(n)} :
          /\ events = confirms \cup
                {Ev(startTime + i * interval, NumNodes + i, "SendData",
                    sourceStack, "", << >>, NoTag) : i \in 0 .. n - 1}
                \cup {Ev(startTime + (n * interval) + 1000, NumNodes + n,
                         "Report", -1, "", << >>, NoTag),
                      Ev(startTime + (n * interval) + 1000 + 500,
                         NumNodes + n + 1, "Stop", -1, "", << >>, NoTag)}
          /\ nextUid = NumNodes + n + 3
    /\ now = 0
    /\ run = "running"
    /\ zigbeeStacks = [i \in Nodes |-> [addr |-> ShortAddress(i),
                                        nextHop |-> FFFF, neighbor |-> FALSE]]
    /\ g_totalPacketsSent = 0
    /\ g_totalPacketsReceived = 0
    /\ g_packetCounter = 0
    /\ g_sendTimeMap = << >>
    /\ g_delayList = << >>
    /\ trace = TraceIdle(FFFF, FFFF)
    /\ report = << >>
    /\ log = << >>
    /\ faults = 0

\* What the run does after a route-discovery confirm: the callback only prints.
RouteDiscoveryFailureAborts(status) ==
    IF status = "SUCCESS" THEN "running" ELSE "aborted"
RouteDiscoveryConfirmRun(status) == "running"

\* NwkRouteDiscoveryConfirm(stack, params)
NwkRouteDiscoveryConfirm ==
    /\ Ready("NwkRouteDiscoveryConfirm")
    /\ run' = RouteDiscoveryConfirmRun(NextEvent.status)
    /\ Execute(<< >>, "printed", 0)
    /\ UNCHANGED << zigbeeStacks, accounting, trace, report, faults >>

NextTraffic ==
    \/ SendData
    \/ NldeDataRequest
    \/ NwkDataIndication
    \/ NwkRouteDiscoveryConfirm
    \/ Report
    \/ Stop

SpecTraffic == InitTraffic /\ [][NextTraffic]_vars

-----------------------------------------------------------------------------
(* Properties *)

LogIdx == 1 .. Len(log)
Kind(i) == log[i].ev.kind
Is(i, kind) == log[i].ev.kind = kind

\* requests of a kind handed to the stack so far: executed or scheduled
Issued(kind) ==
    {log[i].ev : i \in {j \in LogIdx : Is(j, kind)}}
    \cup {e \in events : e.kind = kind}

\* C1: in every reachable state g_totalPacketsReceived <= g_totalPacketsSent,
\* whatever SendData and NwkDataIndication events (tagged, untagged, zero-id,
\* duplicate, unknown-id) have run, and g_totalPacketsSent never decreases.
C1_ReceivedAtMostSent ==
    /\ [](g_totalPacketsReceived <= g_totalPacketsSent)
    /\ [][g_totalPacketsSent' >= g_totalPacketsSent]_vars

\* every packet sent was delivered, and one more indication carried an id
\* that had no send time
C1_Witness ==
    /\ g_totalPacketsSent = numPacketsToSend
    /\ g_totalPacketsReceived = g_totalPacketsSent
    /\ \E i \in LogIdx : Is(i, "NwkDataIndication") /\ log[i].res = "NO SEND TIME"

\* the data requests SendData issued, in send order, executed or scheduled
RECURSIVE InOrder(_)
InOrder(S) ==
    IF S = {} THEN << >>
    ELSE LET e == CHOOSE x \in S : \A y \in S :
                     x.time < y.time \/ (x.time = y.time /\ x.uid <= y.uid)
         IN  << e >> \o InOrder(S \ {e})

SentPackets == InOrder(Issued("NldeDataRequest"))

\* C2: the k-th SendData tags its packet with id k: any two sends carry
\* different ids, every id is strictly positive, and ids increase in send order.
C2_SendIdsCount ==
    /\ \A k \in 1 .. Len(SentPackets) : SentPackets[k].tag = k
    /\ \A k \in 1 .. Len(SentPackets) : SentPackets[k].tag > 0
    /\ \A j, k \in 1 .. Len(SentPackets) :
          j < k => SentPackets[j].tag < SentPackets[k].tag

C2_Witness == Len(SentPackets) = numPacketsToSend /\ numPacketsToSend >= 2

\* C3: for every packet id at most one NwkDataIndication is credited (counter
\* and delay sample): the first one carrying an id that was sent; it removes
\* the pending entry, and every later indication with that id, at any node,
\* finds no send time and credits nothing.
C3_ExactlyOnce ==
    /\ \A i \in LogIdx :
          (Is(i, "NwkDataIndication") /\ log[i].ev.tag > 0) =>
             LET id == log[i].ev.tag
                 sent == \E j \in 1 .. i - 1 : Is(j, "SendData") /\ log[j].id = id
                 credited == \E j \in 1 .. i - 1 :
                                /\ Is(j, "NwkDataIndication")
                                /\ log[j].ev.tag = id
                                /\ log[j].res = "credited"
             IN  /\ log[i].res = "credited" <=> (sent /\ ~credited)
                 /\ log[i].res # "credited" => log[i].res = "NO SEND TIME"
                 /\ sent => id \notin DOMAIN g_sendTimeMap
    /\ g_totalPacketsReceived =
          Cardinality({i \in LogIdx : log[i].res = "credited"})
    /\ Len(g_delayList) = g_totalPacketsReceived

\* one id was indicated at two different nodes: the first was credited, the
\* second found no send time
C3_Witness ==
    \E i, j \in LogIdx :
        /\ i < j
        /\ Is(i, "NwkDataIndication") /\ Is(j, "NwkDataIndication")
        /\ log[i].ev.tag = log[j].ev.tag
        /\ log[i].ev.node # log[j].ev.node
        /\ log[i].res = "credited" /\ log[j].res = "NO SEND TIME"

\* The addresses met by following next hops from address a, n times at most.
RECURSIVE Walk(_, _, _)
Walk(stacks, a, n) ==
    IF n = 0 \/ a = FFFF \/ FindStack(stacks, a) = -1 THEN {a}
    ELSE {a} \cup Walk(stacks, stacks[FindStack(stacks, a)].nextHop, n - 1)

\* The next-hop chain from src is cyclic and dst is not on it.
CyclicChain(stacks, src, dst) ==
    \A a \in Walk(stacks, src, Cardinality(DOMAIN stacks)) :
        a # FFFF /\ a # dst /\ FindStack(stacks, a) # -1

\* C4: TraceRoute terminates for every routing-table configuration, cyclic
\* ones included, and its while loop runs at most MAX_HOPS times.
C4_TraceTerminates ==
    /\ [](trace.iterations <= MAX_HOPS)
    /\ <>(trace.pc = "done")

\* a trace over a cycle that ran the loop MAX_HOPS times and returned
C4_Witness ==
    /\ trace.pc = "done"
    /\ trace.iterations = MAX_HOPS
    /\ CyclicChain(zigbeeStacks, trace.src, trace.dst)

FirstSend == Min({i \in LogIdx : Is(i, "SendData")})

\* C6: at the first SendData the coordinator's formation has been confirmed,
\* every node 1-9 has had a successful join confirm and every router 1-4 has
\* issued its start-router request, whenever the confirms complete.
C6_BootstrapBeforeFirstSend ==
    (\E i \in LogIdx : Is(i, "SendData")) =>
        /\ \E j \in 1 .. FirstSend - 1 :
              Is(j, "NwkNetworkFormationConfirm") /\ log[j].ev.status = "SUCCESS"
        /\ \A n \in 1 .. 9 : \E j \in 1 .. FirstSend - 1 :
              /\ Is(j, "NwkJoinConfirm")
              /\ log[j].ev.node = n
              /\ log[j].ev.status = "SUCCESS"
        /\ \A n \in 1 .. 4 : \E j \in 1 .. FirstSend - 1 :
              Is(j, "NlmeStartRouterRequest") /\ log[j].ev.node = n

\* C7: a discovery confirm with a status other than SUCCESS aborts the run:
\* no join request is ever issued for that node and no later event runs.
C7_DiscoveryFailureAborts ==
    \A i \in LogIdx :
        (Is(i, "NwkNetworkDiscoveryConfirm") /\ log[i].ev.status # "SUCCESS") =>
            /\ run = "aborted"
            /\ i = Len(log)
            /\ \A r \in Issued("NlmeJoinRequest") : r.node # log[i].ev.node

\* a node's discovery failed after other nodes had joined
C7_Witness ==
    /\ log # << >>
    /\ Is(Len(log), "NwkNetworkDiscoveryConfirm")
    /\ log[Len(log)].ev.status # "SUCCESS"
    /\ \E j \in LogIdx : Is(j, "NwkJoinConfirm")
    /\ events # {}

\* C8: a formation confirm with a status other than success aborts the run:
\* no discovery request, join request, send or report is processed after it.
C8_FormationFailureAborts ==
    \A i \in LogIdx :
        (Is(i, "NwkNetworkFormationConfirm") /\ log[i].ev.status # "SUCCESS") =>
            /\ run = "aborted"
            /\ i = Len(log)

\* C9: a join request is issued only on a discovery confirm with status
\* SUCCESS and a non-empty descriptor list, for the first descriptor's extended
\* PAN id, at the instant of the confirm; a SUCCESS confirm with an empty list
\* issues no join request and reads no descriptor.
C9_JoinOnlyOnDescriptor ==
    /\ \A r \in Issued("NlmeJoinRequest") :
          \E j \in LogIdx :
              /\ Is(j, "NwkNetworkDiscoveryConfirm")
              /\ log[j].ev.node = r.node
              /\ log[j].ev.status = "SUCCESS"
              /\ log[j].ev.list # << >>
              /\ r.list = << log[j].ev.list[1] >>
              /\ r.time = log[j].ev.time
    /\ \A i \in LogIdx :
          (/\ Is(i, "NwkNetworkDiscoveryConfirm")
           /\ log[i].ev.status = "SUCCESS"
           /\ log[i].ev.list = << >>) => log[i].res \notin {"crash", "garbage"}

BootstrapRequests ==
    {"NlmeNetworkDiscoveryRequest", "NlmeJoinRequest", "NlmeStartRouterRequest"}

\* the run was aborted by a discovery confirm (C7, C9), the last event executed
AbortedByDiscovery ==
    /\ log # << >>
    /\ Is(Len(log), "NwkNetworkDiscoveryConfirm")
    /\ log[Len(log)].res \in {"failed", "crash"}

\* C11: after a join confirm with a failure status no further join, discovery
\* or start-router request is issued for that node, and the run continues: the
\* confirm itself leaves the run running, only a discovery confirm aborts it
\* later, and a run that reaches its stop has executed the discoveries of the
\* other nodes, every send and the statistics report.
C11_JoinFailureNoRetry ==
    \A i \in LogIdx :
        (Is(i, "NwkJoinConfirm") /\ log[i].ev.status # "SUCCESS") =>
            LET n == log[i].ev.node
            IN  /\ \A e \in events : e.kind \in BootstrapRequests => e.node # n
                /\ \A j \in i + 1 .. Len(log) :
                      Kind(j) \in BootstrapRequests => log[j].ev.node # n
                /\ zigbeeStacks[n].addr = FFFF
                /\ run = "aborted" => (Len(log) > i /\ AbortedByDiscovery)
                /\ run = "stopped" =>
                      /\ \A m \in 1 .. NumNodes - 1 : \E j \in LogIdx :
                            /\ Is(j, "NlmeNetworkDiscoveryRequest")
                            /\ log[j].ev.node = m
                      /\ Cardinality({j \in LogIdx : Is(j, "SendData")})
                            = numPacketsToSend
                      /\ \E j \in i + 1 .. Len(log) : Is(j, "Report")

\* a node failed to join before the last discovery, and the run reached its
\* stop after the sends and the report
C11_Witness ==
    /\ run = "stopped"
    /\ \E i, j, k \in LogIdx :
          /\ i < j /\ j < k
          /\ Is(i, "NwkJoinConfirm") /\ log[i].ev.status # "SUCCESS"
          /\ Is(j, "NlmeNetworkDiscoveryRequest")
          /\ Is(k, "Report")

\* the data indication about to run carries no PacketIdTag, id 0, or an id
\* that has no entry in g_sendTimeMap
Uncreditable ==
    /\ Ready("NwkDataIndication")
    /\ \/ NextEvent.tag = NoTag
       \/ NextEvent.tag = 0
       \/ NextEvent.tag \notin DOMAIN g_sendTimeMap

\* C12: a data indication whose packet has no PacketIdTag, has tag id 0, or
\* has an id absent from g_sendTimeMap leaves g_totalPacketsReceived,
\* g_delayList and g_sendTimeMap unchanged.
C12_UncreditableFrame ==
    [][Uncreditable =>
          UNCHANGED << g_totalPacketsReceived, g_delayList, g_sendTimeMap >>]_vars

\* an indication that was not credited has run while other packets were
\* pending or credited
C12_Witness ==
    /\ \E i \in LogIdx :
          /\ Is(i, "NwkDataIndication")
          /\ log[i].res \in {"NO TAG", "invalid ID tag", "NO SEND TIME"}
    /\ g_totalPacketsReceived > 0

\* the send and the credited receptions of the log, by packet id
SendIndex(id) == CHOOSE j \in LogIdx : Is(j, "SendData") /\ log[j].id = id

\* C14: every delay in g_delayList is >= 0: every credited reception is
\* executed after the SendData of its id and at a time not earlier than it.
C14_DelaysNotNegative ==
    /\ \A k \in 1 .. Len(g_delayList) : g_delayList[k] >= 0
    /\ \A i \in LogIdx :
          (Is(i, "NwkDataIndication") /\ log[i].res = "credited") =>
              /\ \E j \in 1 .. i - 1 : Is(j, "SendData") /\ log[j].id = log[i].id
              /\ log[SendIndex(log[i].id)].ev.time <= log[i].ev.time
    /\ \A i \in 1 .. Len(log) - 1 : log[i].ev.time <= log[i + 1].ev.time

\* two receptions were credited, one of them late
C14_Witness ==
    /\ Len(g_delayList) >= 2
    /\ \E k \in 1 .. Len(g_delayList) : g_delayList[k] = LateDataDelay
    /\ \E k \in 1 .. Len(g_delayList) : g_delayList[k] = DataDelay

\* the data indication about to run is an anomaly: its id has no entry in
\* g_sendTimeMap, or it has id 0 or no tag
Anomaly ==
    /\ Ready("NwkDataIndication")
    /\ \/ NextEvent.tag \in {NoTag, 0}
       \/ ~HasSendTime(g_sendTimeMap, NextEvent.tag)

\* C13: every data indication whose id is not in g_sendTimeMap, or that has
\* id 0 or no tag, is tallied: the program's accounting state after it differs
\* from the state before it, so that the anomalies can be counted afterwards.
C13_AnomaliesTallied ==
    [][Anomaly => accounting' # accounting]_vars

\* C20: an entry of g_sendTimeMap is removed only by a data indication that
\* carries exactly its id, and no event overwrites an entry; an id whose
\* packet never arrives is still in the table when the run stops.
C20_EntryRemovedOnlyByItsIndication ==
    /\ [][\A id \in DOMAIN g_sendTimeMap :
            IF id \in DOMAIN g_sendTimeMap'
            THEN g_sendTimeMap'[id] = g_sendTimeMap[id]
            ELSE Ready("NwkDataIndication") /\ NextEvent.tag = id]_vars
    /\ [](\A i \in LogIdx :
            (/\ Is(i, "SendData")
             /\ \A j \in LogIdx :
                   Is(j, "NwkDataIndication") => log[j].ev.tag # log[i].id)
            => /\ log[i].id \in DOMAIN g_sendTimeMap
               /\ g_sendTimeMap[log[i].id] = log[i].ev.time)

\* the run stopped with the entry of a packet that never arrived still in
\* the table, after a later packet was credited
C20_Witness ==
    /\ run = "stopped"
    /\ \E id \in DOMAIN g_sendTimeMap :
          /\ \A j \in LogIdx : Is(j, "NwkDataIndication") => log[j].ev.tag # id
          /\ \E j \in LogIdx :
                /\ Is(j, "NwkDataIndication")
                /\ log[j].res = "credited"
                /\ log[j].id > id

\* what the report about to run prints
Printed == report'[Len(report')]

\* the delay sample set
Samples == {g_delayList[k] : k \in 1 .. Len(g_delayList)}

\* C15: at the statistics report, if g_totalPacketsSent > 0 the PDR printed is
\* g_totalPacketsReceived / g_totalPacketsSent and lies between 0 and 1; if it
\* is 0 the report prints the PDR as not applicable and divides nothing.
C15_ReportedPdr ==
    [][Ready("Report") =>
          /\ Len(report') = Len(report) + 1
          /\ Printed.sent = g_totalPacketsSent
          /\ Printed.received = g_totalPacketsReceived
          /\ IF g_totalPacketsSent > 0
             THEN /\ Printed.pdr = << g_totalPacketsReceived, g_totalPacketsSent >>
                  /\ 0 <= Printed.pdr[1]
                  /\ Printed.pdr[1] <= Printed.pdr[2]
             ELSE Printed.pdr = << >>]_vars

\* a report after some of the packets sent were credited and others not
C15_Witness ==
    /\ report # << >>
    /\ report[1].pdr # << >>
    /\ 0 < report[1].pdr[1]
    /\ report[1].pdr[1] < report[1].pdr[2]

\* C16: the report prints the average, minimum and maximum delay and the
\* jitter as N/A exactly when g_delayList is empty, that is when no reception
\* was credited; otherwise it prints values, the minimum and the maximum being
\* the least and the greatest element of the delay list.
C16_ReportedLatency ==
    [][Ready("Report") =>
          /\ (Printed.latency = << >>) <=> (g_delayList = << >>)
          /\ (g_delayList = << >>) <=> (g_totalPacketsReceived = 0)
          /\ g_delayList # << >> =>
                LET m == Printed.latency[1]
                IN  /\ Len(Printed.latency) = 1
                    /\ m.min \in Samples /\ m.max \in Samples
                    /\ \A d \in Samples : m.min <= d /\ d <= m.max
                    /\ m.min <= m.avg /\ m.avg <= m.max
                    /\ m.variance >= 0
                    /\ m.count = Len(g_delayList)]_vars

\* a report after a packet was sent and none was credited
C16_Witness ==
    /\ report # << >>
    /\ report[1].sent > 0
    /\ report[1].received = 0
    /\ report[1].latency = << >>

\* the messages of the trace, and its hop records (the lines "Node ..")
TraceMessages == {trace.out[i].msg : i \in 1 .. Len(trace.out)}
HopRecords == {i \in 1 .. Len(trace.out) : trace.out[i].node # -1}

\* the while loop ended solely because hopCount passed MAX_HOPS
EndedByHopLimit ==
    /\ trace.hopCount > MAX_HOPS
    /\ trace.currentHopAddr # FFFF
    /\ trace.currentHopAddr # trace.dst

\* C17: a trace prints "Exceeded maximum hop count" exactly when its loop
\* ended solely because hopCount passed MAX_HOPS, and never together with LOOP
\* DETECTED, Destination Reached, Destination Unreachable or not found.
C17_ExceededOnlyByHopLimit ==
    trace.pc = "done" =>
        /\ ("Exceeded maximum hop count" \in TraceMessages) <=> EndedByHopLimit
        /\ "Exceeded maximum hop count" \in TraceMessages =>
              TraceMessages \cap {"LOOP DETECTED", "Destination Reached",
                                  "Destination Unreachable", "not found"} = {}

\* C18: the hop of a queried stack is printed as Destination Unreachable
\* exactly when the stack has no route (next hop FF:FF); that hop is the last
\* one queried and the loop is over; when the stack is the source, the trace
\* has exactly one hop record.
C18_UnreachableEndsTrace ==
    \A i \in HopRecords :
        LET r == trace.out[i]
        IN  /\ (zigbeeStacks[r.node].nextHop = FFFF)
                  <=> (r.msg = "Destination Unreachable")
            /\ r.msg = "Destination Unreachable" =>
                  /\ r.next = FFFF
                  /\ trace.currentHopAddr = FFFF
                  /\ ~LoopCondition(trace.currentHopAddr, trace.dst, trace.hopCount)
                  /\ trace.iterations = i
                  /\ Len(trace.queried) = i
                  /\ trace.queried[i] = r.node
                  /\ \A j \in HopRecords : j <= i
                  /\ r.addr = trace.src => HopRecords = {1}

\* the trace from a source that has no route has returned
C18_Witness ==
    /\ trace.pc = "done"
    /\ Len(trace.out) = 1
    /\ trace.out[1].msg = "Destination Unreachable"
    /\ trace.out[1].addr = trace.src
    /\ trace.queried = << FindStack(zigbeeStacks, trace.src) >>

\* the executions of the wrapper so far
WrapperRuns == {i \in LogIdx : Is(i, "ScheduleTraceRouteWrapper")}

\* C19: ScheduleTraceRouteWrapper reads the short addresses of both endpoints
\* when it runs; if either is FF:FF it warns and TraceRoute is not invoked (no
\* stack is queried); otherwise TraceRoute runs exactly once, with those
\* addresses.
C19_TraceOnlyWithAddresses ==
    /\ [][Ready("ScheduleTraceRouteWrapper") =>
            LET srcAddr == zigbeeStacks[sourceStack].addr
                dstAddr == zigbeeStacks[destinationStack].addr
            IN  IF srcAddr = FFFF \/ dstAddr = FFFF
                THEN /\ log'[Len(log')].res = "canceled"
                     /\ trace' = trace
                     /\ trace'.pc = "idle"
                     /\ trace'.queried = << >>
                ELSE /\ log'[Len(log')].res = "traced"
                     /\ trace.pc = "idle"
                     /\ trace'.pc = "done"
                     /\ trace'.src = srcAddr
                     /\ trace'.dst = dstAddr
                     /\ trace'.iterations >= 1]_vars
    /\ [](/\ Cardinality(WrapperRuns) <= 1
          /\ trace.pc # "idle" <=> \E i \in WrapperRuns : log[i].res = "traced")

\* the wrapper ran while the source had joined and the destination had not
C19_Witness ==
    /\ \E i \in WrapperRuns : log[i].res = "canceled"
    /\ zigbeeStacks[sourceStack].addr # FFFF
    /\ zigbeeStacks[destinationStack].addr = FFFF
    /\ trace.pc = "idle"

\* the executions of SendData so far, and the rank of one among them
SendRuns == {i \in LogIdx : Is(i, "SendData")}
SendRank(i) == Cardinality({j \in SendRuns : j <= i})

\* the k-th SendData executed ran at startTime + (k - 1) * interval, took id k
\* and handed the data request of packet k to the source node at that instant
SendsOnSchedule ==
    \A i \in SendRuns :
        /\ log[i].id = SendRank(i)
        /\ log[i].ev.time = startTime + (SendRank(i) - 1) * interval
        /\ log[i].ev.node = sourceStack
        /\ \E r \in Issued("NldeDataRequest") :
              /\ r.tag = log[i].id
              /\ r.time = log[i].ev.time
              /\ r.node = sourceStack

\* SendData allocates the next id, records it with the current time and
\* schedules the data request of that packet for the same instant
SendStep ==
    Ready("SendData") =>
        /\ g_packetCounter' = g_packetCounter + 1
        /\ g_totalPacketsSent' = g_totalPacketsSent + 1
        /\ DOMAIN g_sendTimeMap' = DOMAIN g_sendTimeMap \cup {g_packetCounter'}
        /\ g_sendTimeMap'[g_packetCounter'] = NextEvent.time
        /\ now' = NextEvent.time
        /\ \E r \in events' \ events :
              /\ r.kind = "NldeDataRequest"
              /\ r.tag = g_packetCounter'
              /\ r.time = now'
              /\ r.node = sourceStack
              /\ events' \ events = {r}

\* C21 as stated: exactly numPacketsToSend SendData events execute in a run,
\* the i-th at startTime + i * interval, each allocating a new id and issuing
\* its data request at the same instant.
C21_ExactlyCountSends ==
    /\ SendsOnSchedule
    /\ run # "running" => Cardinality(SendRuns) = numPacketsToSend

\* C21, amended: in a run that reaches its stop event exactly numPacketsToSend
\* SendData events have executed, and in every run at most that many; the
\* i-th one executed runs at startTime + i * interval, allocates a new id,
\* records it in g_sendTimeMap with the current time and issues the data
\* request to the source node at the same instant.
C21_SendsOnSchedule ==
    /\ [](/\ SendsOnSchedule
          /\ Cardinality(SendRuns) <= numPacketsToSend
          /\ run = "stopped" => Cardinality(SendRuns) = numPacketsToSend)
    /\ [][SendStep]_vars

\* the run stopped after every send had its turn
C21_Witness ==
    /\ run = "stopped"
    /\ Cardinality(SendRuns) = numPacketsToSend
    /\ numPacketsToSend >= 2

\* the executions of the report so far
ReportRuns == {i \in LogIdx : Is(i, "Report")}

\* every report executed came after all the sends, later than the last
\* send's time, and before the stop
ReportsAfterSends ==
    \A i \in ReportRuns :
        /\ Cardinality({j \in SendRuns : j < i}) = numPacketsToSend
        /\ log[i].ev.time > startTime + (numPacketsToSend - 1) * interval
        /\ \A j \in 1 .. i - 1 : ~Is(j, "Stop")
        /\ log[i].ev.time < stopTime

\* C22 as stated: the statistics report executes exactly once per run, after
\* the last SendData and before the stop.
C22_ReportExactlyOnce ==
    /\ ReportsAfterSends
    /\ run # "running" => Cardinality(ReportRuns) = 1

\* C22, amended: the statistics report executes at most once in a run and
\* exactly once in a run that reaches its stop event, strictly after the last
\* SendData event (later than startTime + (count - 1) * interval) and before
\* the stop event.
C22_ReportOnceAfterSends ==
    /\ ReportsAfterSends
    /\ Cardinality(ReportRuns) <= 1
    /\ Len(report) = Cardinality(ReportRuns)
    /\ run = "stopped" => Cardinality(ReportRuns) = 1

\* the run stopped after its report
C22_Witness ==
    /\ run = "stopped"
    /\ Cardinality(ReportRuns) = 1
    /\ Len(report) = 1
    /\ report[1].sent = numPacketsToSend

\* C23: what the report printed is final: once it has run, the counts and the
\* delay samples it printed are those of the globals, up to the stop.
C23_ReportIsFinal ==
    report # << >> =>
        /\ report[1].sent = g_totalPacketsSent
        /\ report[1].received = g_totalPacketsReceived
        /\ report[1].latency = LatencyMetrics(g_delayList)

\* C24: the formation request is issued once, for the coordinator, before
\* every discovery request; every node 1-9 gets exactly one discovery request
\* and the coordinator none; the discovery requests are issued at strictly
\* increasing times in node order.
C24_BootstrapSchedule ==
    LET formations  == Issued("NlmeNetworkFormationRequest")
        discoveries == Issued("NlmeNetworkDiscoveryRequest")
    IN  /\ Cardinality(formations) = 1
        /\ \A f \in formations :
              /\ f.node = 0
              /\ \A d \in discoveries : f.time < d.time
        /\ \A n \in 1 .. NumNodes - 1 :
              Cardinality({d \in discoveries : d.node = n}) = 1
        /\ \A d \in discoveries : d.node \in 1 .. NumNodes - 1
        /\ \A d, e \in discoveries : d.node < e.node => d.time < e.time
        /\ LET D == {i \in LogIdx : Is(i, "NlmeNetworkDiscoveryRequest")}
           IN  /\ \A i \in D : \E j \in 1 .. i - 1 :
                     Is(j, "NlmeNetworkFormationRequest")
               /\ \A i, j \in D : log[i].ev.node < log[j].ev.node => i < j

\* every discovery request has been executed
C24_Witness ==
    \A n \in 1 .. NumNodes - 1 : \E i \in LogIdx :
        Is(i, "NlmeNetworkDiscoveryRequest") /\ log[i].ev.node = n

\* C25: executing ScheduleTraceRouteWrapper and TraceRoute, whatever the
\* outcome, leaves g_totalPacketsSent, g_totalPacketsReceived,
\* g_packetCounter, g_sendTimeMap and g_delayList unchanged, and schedules
\* nothing that could change them later.
C25_TraceLeavesAccounting ==
    [][Ready("ScheduleTraceRouteWrapper") =>
          /\ UNCHANGED accounting
          /\ UNCHANGED << run, report >>
          /\ events' = events \ {NextEvent}]_vars

\* a trace that ended with LOOP DETECTED has run while a packet was pending
C25_Witness ==
    /\ \E i \in WrapperRuns : log[i].res = "traced"
    /\ trace.out # << >>
    /\ trace.out[Len(trace.out)].msg = "LOOP DETECTED"
    /\ DOMAIN g_sendTimeMap # {}
    /\ g_totalPacketsReceived > 0

\* C26: at every SendData the id it allocates is not a key of g_sendTimeMap
\* yet, so recording the send overwrites the send time of no earlier packet
\* that is still pending.
C26_FreshIdNotPending ==
    [][Ready("SendData") =>
          /\ g_packetCounter' \notin DOMAIN g_sendTimeMap
          /\ \A id \in DOMAIN g_sendTimeMap :
                /\ id \in DOMAIN g_sendTimeMap'
                /\ g_sendTimeMap'[id] = g_sendTimeMap[id]]_vars

\* the last send ran while the first packet was still pending
C26_Witness ==
    /\ \E i \in SendRuns : log[i].id = numPacketsToSend
    /\ {1, numPacketsToSend} \subseteq DOMAIN g_sendTimeMap
    /\ g_sendTimeMap[1] < g_sendTimeMap[numPacketsToSend]

\* C27: NwkRouteDiscoveryConfirm, with any status, changes no state of the
\* orchestrator or of the accounting and issues no request: the stacks, the
\* run, the counters, g_sendTimeMap, g_delayList and the pending events are
\* the same before and after it.
C27_RouteDiscoveryConfirmObserves ==
    [][Ready("NwkRouteDiscoveryConfirm") =>
          /\ UNCHANGED << zigbeeStacks, run, accounting, report, trace >>
          /\ events' = events \ {NextEvent}]_vars

\* a route-discovery confirm with a failure status ran between two sends, and
\* the run went on to its stop
C27_Witness ==
    /\ run = "stopped"
    /\ \E i, j, k \in LogIdx :
          /\ i < j /\ j < k
          /\ Is(i, "SendData")
          /\ Is(j, "NwkRouteDiscoveryConfirm") /\ log[j].ev.status # "SUCCESS"
          /\ Is(k, "SendData")

\* the events of the bootstrap
BootstrapEvents ==
    BootstrapRequests \cup {"NwkNetworkDiscoveryConfirm", "NwkJoinConfirm"}

\* C28: for every node 1-9 the bootstrap requests come only in the order
\* discovery request, successful discovery confirm, join request, successful
\* join confirm, start-router request; a node issues at most one join request
\* and at most one start-router request, and no join request without a
\* discovery confirm for that node before it; the coordinator issues none of
\* them.
C28_BootstrapOrder ==
    LET B == {i \in LogIdx : Kind(i) \in BootstrapEvents}
        joins  == Issued("NlmeJoinRequest")
        starts == Issued("NlmeStartRouterRequest")
        \* an event of kind a, with status SUCCESS if it is a confirm, ran for
        \* the node of position i before position i
        Before(a, i) ==
            \E j \in B :
                /\ j < i
                /\ Is(j, a)
                /\ log[j].ev.node = log[i].ev.node
                /\ a \notin BootstrapRequests => log[j].ev.status = "SUCCESS"
        \* a confirm of kind a with status SUCCESS ran for the node of request
        \* r at the instant of r
        Cause(a, r) ==
            \E j \in B :
                /\ Is(j, a)
                /\ log[j].ev.node = r.node
                /\ log[j].ev.status = "SUCCESS"
                /\ log[j].ev.time = r.time
    IN  /\ \A i \in B :
              /\ log[i].ev.node \in 1 .. NumNodes - 1
              /\ Is(i, "NwkNetworkDiscoveryConfirm") =>
                    Before("NlmeNetworkDiscoveryRequest", i)
              /\ Is(i, "NlmeJoinRequest") =>
                    Before("NwkNetworkDiscoveryConfirm", i)
              /\ Is(i, "NwkJoinConfirm") => Before("NlmeJoinRequest", i)
              /\ Is(i, "NlmeStartRouterRequest") => Before("NwkJoinConfirm", i)
        /\ \A r \in joins :
              /\ r.node \in 1 .. NumNodes - 1
              /\ Cause("NwkNetworkDiscoveryConfirm", r)
              /\ \A q \in joins : q.node = r.node => q = r
        /\ \A r \in starts :
              /\ r.node \in 1 .. NumNodes - 1
              /\ Cause("NwkJoinConfirm", r)
              /\ \A q \in starts : q.node = r.node => q = r

\* the log positions of the events of a kind for a node
Runs(kind, n) == {i \in LogIdx : Is(i, kind) /\ log[i].ev.node = n}

\* node 1 went through the five steps
C28_Witness ==
    /\ Runs("NlmeStartRouterRequest", 1) # {}
    /\ Runs("NwkJoinConfirm", 1) # {}
    /\ Runs("NlmeJoinRequest", 1) # {}
    /\ Runs("NwkNetworkDiscoveryConfirm", 1) # {}
    /\ Runs("NlmeNetworkDiscoveryRequest", 1) # {}

\* The stacks on the next-hop chain from address a up to dst, in chain order;
\* the chain ends with -1 when it meets FF:FF, an address it has met before
\* or an address of no stack, before dst.
RECURSIVE ChainFrom(_, _, _, _)
ChainFrom(stacks, a, dst, seen) ==
    IF a = dst THEN << >>
    ELSE IF a = FFFF \/ a \in seen \/ FindStack(stacks, a) = -1 THEN << -1 >>
    ELSE << FindStack(stacks, a) >>
         \o ChainFrom(stacks, stacks[FindStack(stacks, a)].nextHop, dst,
                      seen \cup {a})

ChainOfTrace == ChainFrom(zigbeeStacks, trace.src, trace.dst, {})

\* following next hops from src reaches dst, through stacks only and without
\* meeting an address twice, in MAX_HOPS hops at most
ChainReachesDst ==
    /\ ChainOfTrace # << >>
    /\ ChainOfTrace[Len(ChainOfTrace)] # -1
    /\ Len(ChainOfTrace) <= MAX_HOPS

NoStackHas(a) == \A s \in DOMAIN zigbeeStacks : zigbeeStacks[s].addr # a

\* C30: when the current hop address is the address of no stack, TraceRoute
\* prints the not-found message and ends the loop at once: no stack is
\* queried for that hop, the hop count is not incremented and nothing is
\* printed after it.
C30_NotFoundEndsTrace ==
    /\ \A i \in 1 .. Len(trace.out) :
          trace.out[i].msg = "not found" =>
              /\ i = Len(trace.out)
              /\ NoStackHas(trace.out[i].addr)
              /\ trace.out[i].addr = trace.currentHopAddr
              /\ trace.out[i].hop = trace.hopCount
              /\ trace.hopCount = i
              /\ Len(trace.queried) = i - 1
              /\ trace.iterations = i
              /\ trace.pc \in {"break", "done"}
    /\ (/\ trace.pc \in {"break", "done"}
        /\ trace.currentHopAddr \notin {FFFF, trace.dst}
        /\ trace.hopCount <= MAX_HOPS
        /\ NoStackHas(trace.currentHopAddr))
       => /\ trace.out # << >>
          /\ trace.out[Len(trace.out)].msg = "not found"

\* a trace met an address of no stack after two hops and has returned
C30_Witness ==
    /\ trace.pc = "done"
    /\ Len(trace.out) = 3
    /\ trace.out[3].msg = "not found"
    /\ Len(trace.queried) = 2

\* the events main() schedules for the end of the run, in the order of their
\* times and, at equal times, of their Schedule calls
EndOrder ==
    << "TablesHeader", "PrintNeighborTable", "PrintRoutingTable",
       "ScheduleTraceRouteWrapper", "Report", "Stop" >>

EndKinds == {EndOrder[p] : p \in DOMAIN EndOrder}

\* the executions of those events so far
EndRuns == {i \in LogIdx : Kind(i) \in EndKinds}

EndPosition(kind) == CHOOSE p \in DOMAIN EndOrder : EndOrder[p] = kind

\* C31: the end-of-run events execute in the order table header, neighbor-table
\* dump (at the header's timestamp, after it), routing-table dump, path trace,
\* statistics report, stop: each runs at most once, only after every event
\* before it in that order has run, and strictly later than the last SendData;
\* a run that reaches the stop has executed all six.
C31_EndOfRunOrder ==
    LET E == EndRuns
        S == SendRuns
    IN  /\ \A i \in E :
              /\ Cardinality(S) = numPacketsToSend
              /\ \A s \in S : s < i /\ log[s].ev.time < log[i].ev.time
              /\ \A j \in E : j # i => Kind(j) # Kind(i)
              /\ \A p \in 1 .. EndPosition(Kind(i)) - 1 :
                     \E j \in E : /\ j < i
                                  /\ Kind(j) = EndOrder[p]
                                  /\ log[j].ev.time <= log[i].ev.time
        /\ \A i, j \in E :
              (Is(i, "TablesHeader") /\ Is(j, "PrintNeighborTable"))
                  => /\ log[i].ev.time = log[j].ev.time
                     /\ log[i].ev.uid < log[j].ev.uid
        /\ run = "stopped" => {Kind(i) : i \in E} = EndKinds

\* the run reached the stop after all its sends, the tables, the trace and
\* the report
C31_Witness ==
    /\ run = "stopped"
    /\ Cardinality(SendRuns) = numPacketsToSend
    /\ Cardinality(EndRuns) = Len(EndOrder)
    /\ Is(Len(log), "Stop")

\* C32: in every reachable state g_totalPacketsSent equals
\* g_totalPacketsReceived plus the number of entries of g_sendTimeMap, and
\* g_delayList holds one sample per reception credited.
C32_SentIsReceivedPlusPending ==
    /\ g_totalPacketsSent = g_totalPacketsReceived + Cardinality(DOMAIN g_sendTimeMap)
    /\ Len(g_delayList) = g_totalPacketsReceived

\* all the packets were sent and the run stopped with exactly one of them
\* never delivered: one entry pending, one delay sample per other packet
C32_Witness ==
    /\ run = "stopped"
    /\ g_totalPacketsSent = numPacketsToSend
    /\ g_totalPacketsReceived = numPacketsToSend - 1
    /\ g_totalPacketsReceived >= 1
    /\ Len(g_delayList) = numPacketsToSend - 1
    /\ Cardinality(DOMAIN g_sendTimeMap) = 1

\* the most iterations a trace over the program's ten stacks can make: every
\* address but the destination's is the current hop twice, then one a third time
TenNodeIterations ==
    (MAX_VISITS_PER_NODE_FOR_LOOP_DETECTION - 1) * (NumNodes - 1) + 1

OutcomeMessages ==
    {"Destination Reached", "Destination Unreachable", "LOOP DETECTED", "not found"}

\* C33: in a container of the program's ten stacks at most, whatever the next
\* hops are, TraceRoute makes at most 19 iterations and leaves the loop through
\* destination reached, destination unreachable, loop detected or node not
\* found: hopCount never passes MAX_HOPS and "Exceeded maximum hop count" is
\* never printed.
C33_TenNodeTraceExits ==
    Cardinality(DOMAIN zigbeeStacks) <= NumNodes =>
        /\ TenNodeIterations = 19
        /\ trace.iterations <= TenNodeIterations
        /\ trace.hopCount <= MAX_HOPS
        /\ ~EndedByHopLimit
        /\ "Exceeded maximum hop count" \notin TraceMessages
        /\ (trace.pc \in {"break", "done"} /\ trace.iterations > 0) =>
              trace.out[Len(trace.out)].msg \in OutcomeMessages
        /\ (trace.pc = "done" /\ trace.iterations = 0) =>
              /\ trace.src = trace.dst
              /\ trace.out = << >>

\* the trace of a cycle through nine of ten stacks, the destination off the
\* cycle, has returned after 19 iterations
C33_Witness ==
    /\ trace.pc = "done"
    /\ Cardinality(DOMAIN zigbeeStacks) = NumNodes
    /\ trace.iterations = TenNodeIterations
    /\ trace.hopCount = TenNodeIterations
    /\ trace.out[Len(trace.out)].msg = "LOOP DETECTED"

\* the hop records printed for the stack of address a
HopRecordsOf(a) == {i \in HopRecords : trace.out[i].addr = a}

\* C34: during a trace no address's visit count passes
\* MAX_VISITS_PER_NODE_FOR_LOOP_DETECTION and at most one fewer hop records
\* are printed for any address: the arrival that brings a count to the
\* threshold is reported as a loop and ends the trace before the stack is
\* queried again.
C34_VisitsBounded ==
    LET H == HopRecords
    IN  \A a \in DOMAIN trace.visitedNodeCounts :
            LET visits  == trace.visitedNodeCounts[a]
                records == Cardinality({i \in H : trace.out[i].addr = a})
            IN  /\ visits <= MAX_VISITS_PER_NODE_FOR_LOOP_DETECTION
                /\ records <= MAX_VISITS_PER_NODE_FOR_LOOP_DETECTION - 1
                /\ records <= visits
                /\ visits = MAX_VISITS_PER_NODE_FOR_LOOP_DETECTION =>
                      /\ trace.pc \in {"break", "done"}
                      /\ trace.out[Len(trace.out)].msg = "LOOP DETECTED"
                      /\ trace.out[Len(trace.out)].addr = a
                      /\ records = MAX_VISITS_PER_NODE_FOR_LOOP_DETECTION - 1

\* a trace came to an address for the third time, after printing two hop
\* records for it, and has returned
C34_Witness ==
    /\ trace.pc = "done"
    /\ \E a \in DOMAIN trace.visitedNodeCounts :
          /\ trace.visitedNodeCounts[a] = MAX_VISITS_PER_NODE_FOR_LOOP_DETECTION
          /\ Cardinality(HopRecordsOf(a)) = 2
          /\ trace.out[Len(trace.out)].msg = "LOOP DETECTED"

\* the data indications that were credited as receptions: those that
\* incremented g_totalPacketsReceived and erased a pending entry
CreditedRuns ==
    {i \in LogIdx : Is(i, "NwkDataIndication") /\ log[i].res = "credited"}

\* C35: a reception is credited only when the data indication is raised at
\* the destination node of the stream: an indication raised at any other node
\* neither increments g_totalPacketsReceived nor removes a pending entry.
C35_CreditOnlyAtDestination ==
    \A i \in CreditedRuns : log[i].ev.node = destinationStack

\* C36: when TraceRoute is entered with src equal to dst, both assigned, the
\* loop body never runs: no visit is counted, no stack is queried and nothing
\* is printed, neither a hop record nor an outcome message nor the exceeded
\* message.
C36_SameEndpointsNoHop ==
    (trace.pc # "idle" /\ trace.src = trace.dst /\ trace.src # FFFF) =>
        /\ trace.iterations = 0
        /\ trace.queried = << >>
        /\ trace.out = << >>
        /\ trace.visitedNodeCounts = << >>
        /\ trace.hopCount = 1
        /\ trace.currentHopAddr = trace.dst
        /\ trace.pc \in {"while", "done"}

\* a trace from the destination to itself, in a container where that stack
\* has a next hop to give, has returned
C36_Witness ==
    /\ trace.pc = "done"
    /\ trace.src = trace.dst
    /\ trace.src # FFFF
    /\ trace.out = << >>
    /\ Cardinality(DOMAIN zigbeeStacks) >= 2
    /\ \E s \in DOMAIN zigbeeStacks : zigbeeStacks[s].addr = trace.src


====
